---- MODULE Spec2Model ----
(***************************************************************************)
(* Model of RangeAllocator<T> (src/backend/auxil/range_alloc.rs): a        *)
(* best-fit allocator of half-open ranges over an ordinal type T, here the *)
(* integers 0..MaxEnd.  A Range<T> is a record [start, end]; a Vec is a    *)
(* sequence (1-based here, 0-based in the source); an Option is a sequence *)
(* of length 0 (None) or 1 (Some).                                         *)
(***************************************************************************)
EXTENDS Integers, Sequences, FiniteSets, TLC

\* Largest ordinal value of T that the model uses.
MaxEnd == 6

T == 0..MaxEnd

\* Range<T>: start..end
Range(s, e) == [start |-> s, end |-> e]

\* Every Range<T> value over T, inverted and empty ones included.
AllRanges == {Range(s, e) : s \in T, e \in T}

\* Option<_>
None == <<>>
Some(x) == <<x>>

\* Vec::remove(index)
Remove(v, i) == SubSeq(v, 1, i - 1) \o SubSeq(v, i + 1, Len(v))

\* Vec::insert(index, element): element ends up at position i
Insert(v, i, x) == SubSeq(v, 1, i - 1) \o <<x>> \o SubSeq(v, i, Len(v))

VARIABLES
    initial_range,  \* RangeAllocator::initial_range
    free_ranges,    \* RangeAllocator::free_ranges
    allocated,      \* non-empty ranges returned by allocate_range and not given back or reset since
                    \* (an empty range holds no unit and free_range asserts against it)
    op,             \* the last call: "new", "allocate_range", "free_range", "reset"
    arg,            \* its argument: the length, or the range
    ret,            \* its result
    old_free,       \* free_ranges before the last call
    old_allocated   \* allocated before the last call

vars == <<initial_range, free_ranges, allocated, op, arg, ret, old_free, old_allocated>>

\* RangeAllocator::new
New(range) == [initial_range |-> range, free_ranges |-> <<range>>]

\* Scan with the comparison against the best candidate turned around.
RECURSIVE ScanWorstFit(_, _, _, _)
ScanWorstFit(fr, length, index, best_fit) ==
    IF index > Len(fr) THEN best_fit
    ELSE LET range == fr[index]
             range_length == range.end - range.start
         IN  IF range_length < length
                 THEN ScanWorstFit(fr, length, index + 1, best_fit)
             ELSE IF range_length = length
                 THEN Some([index |-> index, range |-> range])
             ELSE ScanWorstFit(fr, length, index + 1,
                       IF best_fit = None
                           THEN Some([index |-> index, range |-> range])
                       ELSE IF range_length > best_fit[1].range.end - best_fit[1].range.start
                           THEN Some([index |-> index, range |-> range])
                       ELSE best_fit)

\* Scan that also skips the ranges of exactly the requested length.
RECURSIVE ScanSkipExact(_, _, _, _)
ScanSkipExact(fr, length, index, best_fit) ==
    IF index > Len(fr) THEN best_fit
    ELSE LET range == fr[index]
             range_length == range.end - range.start
         IN  IF range_length <= length
                 THEN ScanSkipExact(fr, length, index + 1, best_fit)
             ELSE ScanSkipExact(fr, length, index + 1,
                       IF best_fit = None
                           THEN Some([index |-> index, range |-> range])
                       ELSE IF range_length < best_fit[1].range.end - best_fit[1].range.start
                           THEN Some([index |-> index, range |-> range])
                       ELSE best_fit)

\* Scan that keeps the first candidate it finds.
RECURSIVE ScanFirstFit(_, _, _, _)
ScanFirstFit(fr, length, index, best_fit) ==
    IF index > Len(fr) THEN best_fit
    ELSE LET range == fr[index]
             range_length == range.end - range.start
         IN  IF range_length < length
                 THEN ScanFirstFit(fr, length, index + 1, best_fit)
             ELSE IF range_length = length
                 THEN Some([index |-> index, range |-> range])
             ELSE ScanFirstFit(fr, length, index + 1,
                       IF best_fit = None
                           THEN Some([index |-> index, range |-> range])
                       ELSE best_fit)

\* The loop of allocate_range: the scan from position index on, best_fit so far.
RECURSIVE Scan(_, _, _, _)
Scan(fr, length, index, best_fit) ==
    IF index > Len(fr) THEN best_fit
    ELSE LET range == fr[index]
             range_length == range.end - range.start
         IN  IF range_length < length
                 THEN Scan(fr, length, index + 1, best_fit)
             ELSE IF range_length = length
                 THEN Some([index |-> index, range |-> range])
             ELSE Scan(fr, length, index + 1,
                       IF best_fit = None
                           THEN Some([index |-> index, range |-> range])
                       ELSE IF range_length < best_fit[1].range.end - best_fit[1].range.start
                           THEN Some([index |-> index, range |-> range])
                       ELSE best_fit)

\* Carve that leaves a partly used entry as it was.
CarveNoAdvance(fr, index, range, length) ==
    [ret  |-> Some(Range(range.start, range.start + length)),
     free |-> IF range.end - range.start = length
                  THEN Remove(fr, index)
                  ELSE fr]

\* Carve that hands out the whole selected entry.
CarveWholeRange(fr, index, range, length) ==
    [ret  |-> Some(Range(range.start, range.end)),
     free |-> IF range.end - range.start = length
                  THEN Remove(fr, index)
                  ELSE [fr EXCEPT ![index].start = @ + length]]

\* Carve that shrinks a partly used entry at its high end.
CarveShrinkEnd(fr, index, range, length) ==
    [ret  |-> Some(Range(range.start, range.start + length)),
     free |-> IF range.end - range.start = length
                  THEN Remove(fr, index)
                  ELSE [fr EXCEPT ![index].end = @ - length]]

\* The closure of best_fit.map: carve length units off the low end of entry index.
Carve(fr, index, range, length) ==
    [ret  |-> Some(Range(range.start, range.start + length)),
     free |-> IF range.end - range.start = length
                  THEN Remove(fr, index)
                  ELSE [fr EXCEPT ![index].start = @ + length]]

\* RangeAllocator::allocate_range
AllocateRange(fr, length) ==
    LET best_fit == Scan(fr, length, 1, None)
    IN  IF best_fit = None
            THEN [ret |-> None, free |-> fr]
            ELSE Carve(fr, best_fit[1].index, best_fit[1].range, length)

\* FreeLoop whose right-neighbour merge drops the neighbour without taking its end.
RECURSIVE FreeLoopDropNeighbour(_, _, _)
FreeLoopDropNeighbour(fr, range, i) ==
    IF i > Len(fr) THEN [res |-> "Err", path |-> "none", free |-> fr]
    ELSE IF range.end = fr[i].start
        THEN LET ext == [fr EXCEPT ![i].start = range.start]
             IN  IF i > 1 /\ ext[i - 1].end = ext[i].start
                     THEN [res |-> "Ok", path |-> "left_merge",
                           free |-> [Remove(ext, i) EXCEPT ![i - 1].end = ext[i].end]]
                     ELSE [res |-> "Ok", path |-> "left", free |-> ext]
    ELSE IF range.start = fr[i].end
        THEN LET ext == [fr EXCEPT ![i].end = range.end]
             IN  IF i # Len(ext) /\ ext[i + 1].start = ext[i].end
                     THEN [res |-> "Ok", path |-> "right_merge",
                           free |-> Remove(ext, i + 1)]
                     ELSE [res |-> "Ok", path |-> "right", free |-> ext]
    ELSE IF i # Len(fr) /\ range.start > fr[i].end /\ range.end < fr[i + 1].start
        THEN [res |-> "Ok", path |-> "between", free |-> Insert(fr, i + 1, range)]
    ELSE FreeLoopDropNeighbour(fr, range, i + 1)

\* FreeLoop without the merge into the right neighbour.
RECURSIVE FreeLoopNoRightMerge(_, _, _)
FreeLoopNoRightMerge(fr, range, i) ==
    IF i > Len(fr) THEN [res |-> "Err", path |-> "none", free |-> fr]
    ELSE IF range.end = fr[i].start
        THEN LET ext == [fr EXCEPT ![i].start = range.start]
             IN  IF i > 1 /\ ext[i - 1].end = ext[i].start
                     THEN [res |-> "Ok", path |-> "left_merge",
                           free |-> [Remove(ext, i) EXCEPT ![i - 1].end = ext[i].end]]
                     ELSE [res |-> "Ok", path |-> "left", free |-> ext]
    ELSE IF range.start = fr[i].end
        THEN [res |-> "Ok", path |-> "right", free |-> [fr EXCEPT ![i].end = range.end]]
    ELSE IF i # Len(fr) /\ range.start > fr[i].end /\ range.end < fr[i + 1].start
        THEN [res |-> "Ok", path |-> "between", free |-> Insert(fr, i + 1, range)]
    ELSE FreeLoopNoRightMerge(fr, range, i + 1)

\* FreeLoop that pushes the range before it reports that it found no place.
RECURSIVE FreeLoopPushOnErr(_, _, _)
FreeLoopPushOnErr(fr, range, i) ==
    IF i > Len(fr) THEN [res |-> "Err", path |-> "none", free |-> Append(fr, range)]
    ELSE IF range.end = fr[i].start
        THEN LET ext == [fr EXCEPT ![i].start = range.start]
             IN  IF i > 1 /\ ext[i - 1].end = ext[i].start
                     THEN [res |-> "Ok", path |-> "left_merge",
                           free |-> [Remove(ext, i) EXCEPT ![i - 1].end = ext[i].end]]
                     ELSE [res |-> "Ok", path |-> "left", free |-> ext]
    ELSE IF range.start = fr[i].end
        THEN LET ext == [fr EXCEPT ![i].end = range.end]
             IN  IF i # Len(ext) /\ ext[i + 1].start = ext[i].end
                     THEN [res |-> "Ok", path |-> "right_merge",
                           free |-> [Remove(ext, i + 1) EXCEPT ![i].end = ext[i + 1].end]]
                     ELSE [res |-> "Ok", path |-> "right", free |-> ext]
    ELSE IF i # Len(fr) /\ range.start > fr[i].end /\ range.end < fr[i + 1].start
        THEN [res |-> "Ok", path |-> "between", free |-> Insert(fr, i + 1, range)]
    ELSE FreeLoopPushOnErr(fr, range, i + 1)

\* FreeLoop whose left-adjacent case reports success without extending the entry.
RECURSIVE FreeLoopNoLeftExtend(_, _, _)
FreeLoopNoLeftExtend(fr, range, i) ==
    IF i > Len(fr) THEN [res |-> "Err", path |-> "none", free |-> fr]
    ELSE IF range.end = fr[i].start
        THEN [res |-> "Ok", path |-> "left", free |-> fr]
    ELSE IF range.start = fr[i].end
        THEN LET ext == [fr EXCEPT ![i].end = range.end]
             IN  IF i # Len(ext) /\ ext[i + 1].start = ext[i].end
                     THEN [res |-> "Ok", path |-> "right_merge",
                           free |-> [Remove(ext, i + 1) EXCEPT ![i].end = ext[i + 1].end]]
                     ELSE [res |-> "Ok", path |-> "right", free |-> ext]
    ELSE IF i # Len(fr) /\ range.start > fr[i].end /\ range.end < fr[i + 1].start
        THEN [res |-> "Ok", path |-> "between", free |-> Insert(fr, i + 1, range)]
    ELSE FreeLoopNoLeftExtend(fr, range, i + 1)

\* FreeLoop without the case of a range immediately to the right of an entry.
RECURSIVE FreeLoopNoRightBranch(_, _, _)
FreeLoopNoRightBranch(fr, range, i) ==
    IF i > Len(fr) THEN [res |-> "Err", path |-> "none", free |-> fr]
    ELSE IF range.end = fr[i].start
        THEN LET ext == [fr EXCEPT ![i].start = range.start]
             IN  IF i > 1 /\ ext[i - 1].end = ext[i].start
                     THEN [res |-> "Ok", path |-> "left_merge",
                           free |-> [Remove(ext, i) EXCEPT ![i - 1].end = ext[i].end]]
                     ELSE [res |-> "Ok", path |-> "left", free |-> ext]
    ELSE IF i # Len(fr) /\ range.start > fr[i].end /\ range.end < fr[i + 1].start
        THEN [res |-> "Ok", path |-> "between", free |-> Insert(fr, i + 1, range)]
    ELSE FreeLoopNoRightBranch(fr, range, i + 1)

\* The placement loop of free_range, from position i on.
RECURSIVE FreeLoop(_, _, _)
FreeLoop(fr, range, i) ==
    IF i > Len(fr) THEN [res |-> "Err", path |-> "none", free |-> fr]
    ELSE IF range.end = fr[i].start
        THEN LET ext == [fr EXCEPT ![i].start = range.start]
             IN  IF i > 1 /\ ext[i - 1].end = ext[i].start
                     THEN [res |-> "Ok", path |-> "left_merge",
                           free |-> [Remove(ext, i) EXCEPT ![i - 1].end = ext[i].end]]
                     ELSE [res |-> "Ok", path |-> "left", free |-> ext]
    ELSE IF range.start = fr[i].end
        THEN LET ext == [fr EXCEPT ![i].end = range.end]
             IN  IF i # Len(ext) /\ ext[i + 1].start = ext[i].end
                     THEN [res |-> "Ok", path |-> "right_merge",
                           free |-> [Remove(ext, i + 1) EXCEPT ![i].end = ext[i + 1].end]]
                     ELSE [res |-> "Ok", path |-> "right", free |-> ext]
    ELSE IF i # Len(fr) /\ range.start > fr[i].end /\ range.end < fr[i + 1].start
        THEN [res |-> "Ok", path |-> "between", free |-> Insert(fr, i + 1, range)]
    ELSE FreeLoop(fr, range, i + 1)

\* free_range that pushes a range lying before every free range to the back.
FreeRangePushFront(fr, init, range) ==
    IF ~(init.start <= range.start /\ range.end <= init.end)
        THEN [res |-> "Panic", path |-> "assert_bounds", free |-> fr]
    ELSE IF ~(range.start < range.end)
        THEN [res |-> "Panic", path |-> "assert_nonempty", free |-> fr]
    ELSE IF Len(fr) = 0
        THEN [res |-> "Ok", path |-> "empty", free |-> Append(fr, range)]
    ELSE IF fr[1].start > range.end
        THEN [res |-> "Ok", path |-> "prepend", free |-> Append(fr, range)]
    ELSE IF fr[Len(fr)].end < range.start
        THEN [res |-> "Ok", path |-> "append", free |-> Append(fr, range)]
    ELSE FreeLoop(fr, range, 1)

\* free_range without the assertion that the range is not empty.
FreeRangeNoEmptyCheck(fr, init, range) ==
    IF ~(init.start <= range.start /\ range.end <= init.end)
        THEN [res |-> "Panic", path |-> "assert_bounds", free |-> fr]
    ELSE IF Len(fr) = 0
        THEN [res |-> "Ok", path |-> "empty", free |-> Append(fr, range)]
    ELSE IF fr[1].start > range.end
        THEN [res |-> "Ok", path |-> "prepend", free |-> Insert(fr, 1, range)]
    ELSE IF fr[Len(fr)].end < range.start
        THEN [res |-> "Ok", path |-> "append", free |-> Append(fr, range)]
    ELSE FreeLoop(fr, range, 1)

\* free_range without the case of a range after all free ranges.
FreeRangeNoAppend(fr, init, range) ==
    IF ~(init.start <= range.start /\ range.end <= init.end)
        THEN [res |-> "Panic", path |-> "assert_bounds", free |-> fr]
    ELSE IF ~(range.start < range.end)
        THEN [res |-> "Panic", path |-> "assert_nonempty", free |-> fr]
    ELSE IF Len(fr) = 0
        THEN [res |-> "Ok", path |-> "empty", free |-> Append(fr, range)]
    ELSE IF fr[1].start > range.end
        THEN [res |-> "Ok", path |-> "prepend", free |-> Insert(fr, 1, range)]
    ELSE FreeLoop(fr, range, 1)

\* RangeAllocator::free_range; "Panic" is a failed assert!
FreeRange(fr, init, range) ==
    IF ~(init.start <= range.start /\ range.end <= init.end)
        THEN [res |-> "Panic", path |-> "assert_bounds", free |-> fr]
    ELSE IF ~(range.start < range.end)
        THEN [res |-> "Panic", path |-> "assert_nonempty", free |-> fr]
    ELSE IF Len(fr) = 0
        THEN [res |-> "Ok", path |-> "empty", free |-> Append(fr, range)]
    ELSE IF fr[1].start > range.end
        THEN [res |-> "Ok", path |-> "prepend", free |-> Insert(fr, 1, range)]
    ELSE IF fr[Len(fr)].end < range.start
        THEN [res |-> "Ok", path |-> "append", free |-> Append(fr, range)]
    ELSE FreeLoop(fr, range, 1)

\* reset that clears the free list and pushes nothing.
ResetClearOnly(init) == <<>>

\* RangeAllocator::reset
ResetRanges(init) == <<init>>

Init ==
    \E s \in T, e \in T :
        /\ s <= e
        /\ initial_range = New(Range(s, e)).initial_range
        /\ free_ranges = New(Range(s, e)).free_ranges
        /\ allocated = {}
        /\ op = "new"
        /\ arg = Range(s, e)
        /\ ret = None
        /\ old_free = <<>>
        /\ old_allocated = {}

\* The effect of alloc.allocate_range(length) on the state.
AllocateLen(length) ==
    LET a == AllocateRange(free_ranges, length)
    IN  /\ free_ranges' = a.free
        /\ allocated' = IF a.ret = None \/ a.ret[1].start = a.ret[1].end
                            THEN allocated
                            ELSE allocated \cup {a.ret[1]}
        /\ op' = "allocate_range"
        /\ arg' = length
        /\ ret' = a.ret
        /\ old_free' = free_ranges
        /\ old_allocated' = allocated
        /\ UNCHANGED initial_range

\* alloc.allocate_range(length), length > 0
Allocate == \E length \in 1..MaxEnd : AllocateLen(length)

\* alloc.allocate_range(0)
AllocateZero == AllocateLen(0)

\* The effect of alloc.free_range(range) on the state.
Free(range) ==
    LET f == FreeRange(free_ranges, initial_range, range)
    IN  /\ free_ranges' = f.free
        /\ allocated' = IF f.res = "Ok" THEN allocated \ {range} ELSE allocated
        /\ op' = "free_range"
        /\ arg' = range
        /\ ret' = <<f.res, f.path>>
        /\ old_free' = free_ranges
        /\ old_allocated' = allocated
        /\ UNCHANGED initial_range

\* alloc.free_range(range) of a range that is currently allocated
FreeAllocated == \E range \in allocated : Free(range)

\* alloc.free_range(range) of any range at all
FreeAny == \E range \in AllRanges : Free(range)

\* alloc.reset()
Reset ==
    /\ free_ranges' = ResetRanges(initial_range)
    /\ allocated' = {}
    /\ op' = "reset"
    /\ arg' = initial_range
    /\ ret' = None
    /\ old_free' = free_ranges
    /\ old_allocated' = allocated
    /\ UNCHANGED initial_range

\* Callers that give back only what they hold.
Next == Allocate \/ FreeAllocated \/ Reset

Spec == Init /\ [][Next]_vars

\* The last call was a free_range that accepted a range the caller did not hold.
Misused == op = "free_range" /\ ret[1] = "Ok" /\ arg \notin old_allocated

\* Callers that may pass any range to free_range; once free_range has accepted
\* a range that was not allocated, the caller's bookkeeping is void and the
\* run goes on with reset only.
NextAny == (~Misused /\ Allocate) \/ (~Misused /\ FreeAny) \/ Reset

SpecAny == Init /\ [][NextAny]_vars

\* Callers that give back only what they hold and also ask for zero units.
NextZero == Allocate \/ AllocateZero \/ FreeAllocated \/ Reset

SpecZero == Init /\ [][NextZero]_vars

(***************************************************************************)
(* Vocabulary of the properties.                                           *)
(***************************************************************************)

Size(r) == r.end - r.start

\* Two ranges share at least one unit.
Overlaps(a, b) == a.start < b.end /\ b.start < a.end

RECURSIVE SumSizes(_)
SumSizes(fr) == IF fr = <<>> THEN 0 ELSE Size(Head(fr)) + SumSizes(Tail(fr))

RECURSIVE SumSizesOf(_)
SumSizesOf(S) ==
    IF S = {} THEN 0 ELSE LET r == CHOOSE x \in S : TRUE IN Size(r) + SumSizesOf(S \ {r})

\* The five invariants of the free list.
Disjoint(fr) == \A i, j \in 1..Len(fr) : i # j => ~Overlaps(fr[i], fr[j])
Sorted(fr) == \A i \in 1..(Len(fr) - 1) : fr[i].start < fr[i + 1].start
NoAdjacent(fr) == \A i \in 1..(Len(fr) - 1) : fr[i].end # fr[i + 1].start
Within(fr, init) == \A i \in 1..Len(fr) : init.start <= fr[i].start /\ fr[i].end <= init.end
NonEmpty(fr) == \A i \in 1..Len(fr) : fr[i].start < fr[i].end
FiveInvariants(fr, init) ==
    Disjoint(fr) /\ Sorted(fr) /\ NoAdjacent(fr) /\ Within(fr, init) /\ NonEmpty(fr)

\* The argument of free_range meets the asserted preconditions.
MeetsPreconditions(range, init) ==
    init.start <= range.start /\ range.end <= init.end /\ range.start < range.end

\* Positions of the free ranges that can hold length units.
Qualifying(fr, length) == {i \in 1..Len(fr) : Size(fr[i]) >= length}

\* The position best fit selects: smallest qualifying size, lowest start on ties.
BestIndex(fr, length) ==
    CHOOSE i \in Qualifying(fr, length) :
        \A j \in Qualifying(fr, length) :
            \/ Size(fr[i]) < Size(fr[j])
            \/ Size(fr[i]) = Size(fr[j]) /\ fr[i].start <= fr[j].start

\* Positions of the free ranges that touch range on either side.
Touching(fr, range) ==
    {i \in 1..Len(fr) : fr[i].end = range.start \/ fr[i].start = range.end}

\* The units a range holds, and the units a list of ranges covers.
UnitsOf(r) == r.start..(r.end - 1)
Units(fr) == UNION {UnitsOf(fr[i]) : i \in 1..Len(fr)}

(***************************************************************************)
(* Properties.                                                             *)
(***************************************************************************)

\* C1: with callers that free only what they hold, no two free-list entries
\* overlap and no free-list entry overlaps an outstanding allocation.
C1_FreeDisjoint ==
    /\ Disjoint(free_ranges)
    /\ \A i \in 1..Len(free_ranges) : \A a \in allocated : ~Overlaps(free_ranges[i], a)

\* A free_range call has left two free ranges next to live allocations.
C1_Witness ==
    op = "free_range" /\ ret[1] = "Ok" /\ Len(free_ranges) >= 2 /\ Cardinality(allocated) >= 2

\* C2: a successful allocate_range(length), length > 0, returns a sub-range
\* of initial_range of exactly length units that overlaps no allocation
\* outstanding before the call; the outstanding allocations are pairwise
\* disjoint.
C2_AllocationsDisjoint ==
    /\ \A a, b \in allocated : a # b => ~Overlaps(a, b)
    /\ (op = "allocate_range" /\ ret # None) =>
           /\ initial_range.start <= ret[1].start
           /\ ret[1].end <= initial_range.end
           /\ Size(ret[1]) = arg
           /\ \A a \in old_allocated : ~Overlaps(ret[1], a)

\* An allocation placed in a freed hole below an allocation that is still held.
C2_Witness ==
    /\ op = "allocate_range" /\ ret # None
    /\ \E a \in old_allocated : ret[1].end <= a.start
    /\ \E a \in old_allocated : a.end <= ret[1].start

\* C3: the sizes of the free ranges and of the outstanding allocations add up
\* to the size of initial_range.
C3_Conservation ==
    SumSizes(free_ranges) + SumSizesOf(allocated) = Size(initial_range)

\* A free_range call has merged the freed range with both neighbours while
\* other allocations are held.
C3_Witness ==
    op = "free_range" /\ ret = <<"Ok", "right_merge">> /\ allocated # {}

\* C4: no two consecutive free-list entries are adjacent, and a successful
\* free_range merges the freed range with every free range it touches: the
\* list grows by one entry less the number of touched entries.
C4_NoAdjacency ==
    /\ NoAdjacent(free_ranges)
    /\ (op = "free_range" /\ ret[1] = "Ok") =>
           Len(free_ranges) = Len(old_free) + 1 - Cardinality(Touching(old_free, arg))

\* A freed range touched free ranges on both sides.
C4_Witness ==
    op = "free_range" /\ ret[1] = "Ok" /\ Cardinality(Touching(old_free, arg)) = 2

\* C5: the free list is sorted by strictly ascending start.
C5_Sorted == Sorted(free_ranges)

\* A range was put in front of a non-empty free list, without touching it.
C5_Witness ==
    op = "free_range" /\ ret = <<"Ok", "prepend">> /\ Len(free_ranges) >= 2

\* C6: every free-list entry is non-empty, whatever range with start <= end
\* the allocator was built over.
C6_NonEmpty == NonEmpty(free_ranges)

\* C7: when some free range can hold length units, allocate_range(length)
\* returns the first length units of the smallest such range, the one with
\* the lowest start among equally small ones.
C7_BestFit ==
    (op = "allocate_range" /\ Qualifying(old_free, arg) # {}) =>
        LET s == old_free[BestIndex(old_free, arg)].start
        IN  ret = Some(Range(s, s + arg))

\* An exact fit was taken although a larger free range comes earlier in the list.
C7_Witness ==
    /\ op = "allocate_range" /\ ret # None
    /\ \E i, j \in 1..Len(old_free) :
           /\ i < j
           /\ Size(old_free[i]) > arg
           /\ old_free[j].start = ret[1].start
           /\ Size(old_free[j]) = arg

\* C8: allocate_range(length), length > 0, returns None exactly when no free
\* range has size >= length, and then the free list is unchanged.
C8_OutOfSpace ==
    op = "allocate_range" =>
        /\ (ret = None) <=> (Qualifying(old_free, arg) = {})
        /\ (ret = None) => free_ranges = old_free

\* A request was refused although the free ranges together could hold it.
C8_Witness ==
    op = "allocate_range" /\ ret = None /\ SumSizes(old_free) >= arg

\* C9: free_range of a non-empty range inside initial_range that overlaps a
\* free-list entry returns Err and leaves the free list unchanged.
C9_DoubleFreeRejected ==
    (/\ op = "free_range"
     /\ MeetsPreconditions(arg, initial_range)
     /\ \E i \in 1..Len(old_free) : Overlaps(arg, old_free[i]))
        => (ret[1] = "Err" /\ free_ranges = old_free)

\* C10: a successful free_range whose argument meets the preconditions, made
\* on a free list that satisfies the five invariants, leaves a free list
\* that satisfies them.
C10_FreePreservesInvariants ==
    (/\ op = "free_range"
     /\ MeetsPreconditions(arg, initial_range)
     /\ FiveInvariants(old_free, initial_range)
     /\ ret[1] = "Ok")
        => FiveInvariants(free_ranges, initial_range)

\* C11: a free_range call that returns Err leaves the free list and
\* initial_range exactly as they were before the call.
C11_ErrLeavesState ==
    [][(op' = "free_range" /\ ret'[1] = "Err") =>
           (free_ranges' = free_ranges /\ initial_range' = initial_range)]_vars

\* free_range has refused a range that overlaps a free range.
C11_Witness ==
    /\ op = "free_range" /\ ret[1] = "Err"
    /\ \E i \in 1..Len(old_free) : Overlaps(arg, old_free[i])

\* C13: initial_range never changes, and reset leaves the free list as new
\* built it: the single entry initial_range.
C13_ResetRestores ==
    [][/\ initial_range' = initial_range
       /\ op' = "reset" => free_ranges' = New(initial_range).free_ranges]_vars

\* reset has discarded outstanding allocations and a fragmented free list.
C13_Witness ==
    op = "reset" /\ old_allocated # {} /\ Len(old_free) >= 2 /\ allocated = {}

\* C14: free_range of a range that reaches outside initial_range, or that is
\* empty or inverted, fails an assertion and has changed nothing.
C14_ContractViolationPanics ==
    (op = "free_range" /\ ~MeetsPreconditions(arg, initial_range)) =>
        (ret[1] = "Panic" /\ free_ranges = old_free)

\* The assertion has stopped an empty or inverted range that lies inside
\* initial_range.
C14_Witness ==
    /\ op = "free_range" /\ ret = <<"Panic", "assert_nonempty">>
    /\ initial_range.start <= arg.start /\ arg.end <= initial_range.end

\* C12: when allocate_range has returned a range and the next call gives
\* that range back, free_range returns Ok and the free list is again the
\* list from before the allocation.
C12_RoundTrip ==
    [][(op = "allocate_range" /\ ret # None /\ op' = "free_range" /\ arg' = ret[1]) =>
           (ret'[1] = "Ok" /\ free_ranges' = old_free)]_vars

\* free_range has put back, next to other allocations, the range that
\* allocate_range carves from the list free_range left, out of a larger entry.
C12_Witness ==
    /\ op = "free_range" /\ ret = <<"Ok", "left">>
    /\ allocated # {}
    /\ AllocateRange(free_ranges, Size(arg)).ret = Some(arg)
    /\ AllocateRange(free_ranges, Size(arg)).free = old_free

\* C15: with callers that free only what they hold, whenever nothing is
\* allocated the free list is the single entry initial_range, as after new.
C15_FullCoalescing ==
    (initial_range.start < initial_range.end /\ allocated = {}) =>
        free_ranges = <<initial_range>>

\* The last outstanding allocation, lying between two free ranges, was freed.
C15_Witness ==
    /\ op = "free_range" /\ ret[1] = "Ok" /\ allocated = {}
    /\ Len(old_free) = 2 /\ Len(free_ranges) = 1

\* C16: a successful allocate_range(length), length > 0, changes only the
\* selected entry: it is removed when its size is length, otherwise its
\* start moves up by length and its end stays; all other entries keep their
\* value and their order.
C16_AllocateFrame ==
    (op = "allocate_range" /\ ret # None) =>
        \E k \in 1..Len(old_free) :
            /\ old_free[k].start = ret[1].start
            /\ IF Size(old_free[k]) = arg
                   THEN /\ Len(free_ranges) = Len(old_free) - 1
                        /\ \A i \in 1..Len(free_ranges) :
                               free_ranges[i] = IF i < k THEN old_free[i] ELSE old_free[i + 1]
                   ELSE /\ Len(free_ranges) = Len(old_free)
                        /\ free_ranges[k] = Range(old_free[k].start + arg, old_free[k].end)
                        /\ \A i \in 1..Len(free_ranges) : i # k => free_ranges[i] = old_free[i]

\* An allocation took part of the second free range and left the first alone.
C16_Witness ==
    /\ op = "allocate_range" /\ ret # None
    /\ Len(old_free) >= 2
    /\ ret[1].start = old_free[2].start
    /\ Size(old_free[2]) > arg

\* C17: on a free list without zero-sized entries allocate_range(0) leaves
\* the free list unchanged (the exact-fit branch, which removes the entry it
\* selects, is not taken); it returns None when the list is empty and
\* otherwise the empty range at the start of the smallest free range, the
\* one with the lowest start among equally small ones.
C17_ZeroLength ==
    (op = "allocate_range" /\ arg = 0 /\ NonEmpty(old_free)) =>
        /\ free_ranges = old_free
        /\ old_free = <<>> => ret = None
        /\ old_free # <<>> =>
               LET s == old_free[BestIndex(old_free, 0)].start
               IN  ret = Some(Range(s, s))

\* allocate_range(0) has returned the start of a free range that is smaller
\* than an earlier one.
C17_Witness ==
    /\ op = "allocate_range" /\ arg = 0 /\ ret # None
    /\ Len(old_free) >= 2
    /\ ret[1].start # old_free[1].start
    /\ ret[1].start = ret[1].end

\* C18: on a free list that satisfies the five invariants, free_range of a
\* non-empty range inside initial_range that overlaps no free-list entry
\* returns Ok, and the free list then covers the units it covered before
\* plus the units of the range.
C18_FreeSucceeds ==
    (/\ op = "free_range"
     /\ MeetsPreconditions(arg, initial_range)
     /\ FiveInvariants(old_free, initial_range)
     /\ \A i \in 1..Len(old_free) : ~Overlaps(arg, old_free[i]))
        => /\ ret[1] = "Ok"
           /\ Units(free_ranges) = Units(old_free) \cup UnitsOf(arg)

\* free_range has accepted a range the caller did not hold, which lies after
\* every free range, touches none and overlaps none.
C18_Witness ==
    /\ op = "free_range" /\ ret = <<"Ok", "append">>
    /\ arg \notin old_allocated
    /\ FiveInvariants(old_free, initial_range)

\* C19: for any two distinct outstanding allocations a and b, free_range(a)
\* then free_range(b) and free_range(b) then free_range(a) all return Ok and
\* leave the same free list.
C19_FreesCommute ==
    \A a, b \in allocated :
        a # b =>
            LET fa  == FreeRange(free_ranges, initial_range, a)
                fab == FreeRange(fa.free, initial_range, b)
                fb  == FreeRange(free_ranges, initial_range, b)
                fba == FreeRange(fb.free, initial_range, a)
            IN  /\ fa.res = "Ok" /\ fab.res = "Ok"
                /\ fb.res = "Ok" /\ fba.res = "Ok"
                /\ fab.free = fba.free

\* After a free_range, two allocations that touch each other are held, one
\* of them next to a free range.
C19_Witness ==
    /\ op = "free_range" /\ ret[1] = "Ok"
    /\ \E a, b \in allocated :
           /\ a.end = b.start
           /\ Touching(free_ranges, a) # {}

\* C20: free_range never runs the left-neighbour merge of its 'immediately
\* to the left' case, neither in the call just made nor for any range it
\* could be given now; a range that touches a free range on each side is
\* merged by the right-neighbour merge.
C20_LeftMergeDead ==
    /\ \A range \in AllRanges :
           FreeRange(free_ranges, initial_range, range).path # "left_merge"
    /\ op = "free_range" =>
           /\ ret[2] # "left_merge"
           /\ (/\ MeetsPreconditions(arg, initial_range)
               /\ \E k \in 1..(Len(old_free) - 1) :
                      old_free[k].end = arg.start /\ arg.end = old_free[k + 1].start)
                  => ret = <<"Ok", "right_merge">>

\* free_range has merged a range with the free ranges on both sides of it.
C20_Witness ==
    /\ op = "free_range" /\ ret[1] = "Ok"
    /\ \E k \in 1..(Len(old_free) - 1) :
           old_free[k].end = arg.start /\ arg.end = old_free[k + 1].start
    /\ Len(free_ranges) = Len(old_free) - 1

====
